---- MODULE Spec2Model ----
(***************************************************************************)
(* The daily-lives / streak / points ledger of the user service.           *)
(*                                                                         *)
(* The persisted record of a user holds five game fields.  The repository  *)
(* (UserRepository) mutates it in update_points, update_streak,            *)
(* reset_daily_lives and use_life; the service (UserService) wraps the     *)
(* reset in reset_daily_lives / check_and_reset_daily_lives and forwards   *)
(* partial updates in update_user_game_stats.  Every handler reads the     *)
(* calendar date from the system clock (date.today()), modelled by the     *)
(* variable today.                                                         *)
(*                                                                         *)
(* Spec runs every handler as one step.  RaceSpec and FailSpec split a     *)
(* repository call into the load (get_by_id) and the commit, each request  *)
(* with a database session of its own (sess), and let the commit or the    *)
(* load fail; PairSpec runs the handlers on two users' rows and keeps, in  *)
(* solo, the row each user's calls produce on their own.  TokenSpec is the  *)
(* JWT issuing and verification of core/security.py: utcnow is the clock   *)
(* of datetime.utcnow(), token the token a client holds, verified the last *)
(* verification.                                                           *)
(***************************************************************************)
EXTENDS Integers, Sequences, FiniteSets, TLC

VARIABLES db, today, last, run, sess, solo, utcnow, token, verified

auth == <<utcnow, token, verified>>

vars == <<db, today, last, run, sess, solo, auth>>

(***************************************************************************)
(* Bounds of the model.                                                    *)
(***************************************************************************)
MaxPoints == 1
MaxStreak == 1
MaxDate == 1
MaxDelta == 2
MaxCalls == 7
Slack == 1

(***************************************************************************)
(* The number of lives a reset grants: the literal 5 of reset_daily_lives  *)
(* and use_life, and the column default of User.daily_lives.               *)
(***************************************************************************)
MAX_LIVES == 5

UserIds == {"u1", "u2"}
Dates == 0..MaxDate
Fields == {"total_points", "current_streak", "max_streak", "daily_lives"}

Max(a, b) == IF a >= b THEN a ELSE b
Min(a, b) == IF a <= b THEN a ELSE b

(***************************************************************************)
(* The gamification columns of a User row as create_user inserts it: the   *)
(* column defaults 0, 0, 0, 5 and date.today.                              *)
(***************************************************************************)
User_NoLives(d) ==
    [total_points |-> 0, current_streak |-> 0, max_streak |-> 0,
     daily_lives |-> 0, lives_reset_date |-> d]

User(d) ==
    [total_points |-> 0, current_streak |-> 0, max_streak |-> 0,
     daily_lives |-> MAX_LIVES, lives_reset_date |-> d]

(***************************************************************************)
(* What a handler returned: None, True, False, a User object, or (for the  *)
(* partial update) the rejection of the write.  user is <<>> or <<row>>.   *)
(***************************************************************************)
RetNone == [kind |-> "None", user |-> <<>>]
RetBool(b) == [kind |-> IF b THEN "True" ELSE "False", user |-> <<>>]
RetUser(u) == [kind |-> "User", user |-> <<u>>]
RetRejected == [kind |-> "Rejected", user |-> <<>>]

NoArg == [k \in {} |-> 0]
Arg(k, v) == [x \in {k} |-> v]

(***************************************************************************)
(* The record of the last call: the handler, the user id, the value        *)
(* returned, whether db.commit() ran, and the call's argument.             *)
(***************************************************************************)
Call(op, uid, ret, wrote, arg) ==
    [op |-> op, uid |-> uid, ret |-> ret, wrote |-> wrote, arg |-> arg]

(***************************************************************************)
(* The run of consecutive use_life calls for one user on one date: the     *)
(* number of calls and of True results, and what the first call of the run *)
(* found in the row (whether it was stale, and its daily_lives).           *)
(***************************************************************************)
NoRun == [calls |-> 0, oks |-> 0, stale |-> FALSE, lives |-> 0]

get_by_id(id) == IF id \in DOMAIN db THEN <<db[id]>> ELSE <<>>

(***************************************************************************)
(* The requests in flight.  Each request has its own AsyncSession          *)
(* (get_async_session); a session that is not in use is Idle.              *)
(***************************************************************************)
Procs == {"p1", "p2"}

Idle ==
    [pc |-> "idle", op |-> "", uid |-> "", arg |-> NoArg,
     user |-> <<>>, obj |-> <<>>, ret |-> RetNone,
     wrote |-> FALSE, raised |-> FALSE, tries |-> 0, overlapped |-> FALSE]

NoSessions == [p \in Procs |-> Idle]

NoSolo == [id \in {} |-> User(0)]

(***************************************************************************)
(* The clock of datetime.utcnow(), in ticks of half a second counted from  *)
(* Epoch, and the state with no token issued and nothing verified.         *)
(***************************************************************************)
TicksPerSecond == 2
Epoch == 2 * TicksPerSecond

NoVerify == [fn |-> "", at |-> 0, result |-> <<>>]

NoAuth == utcnow = Epoch /\ token = <<>> /\ verified = NoVerify

Init ==
    /\ today \in Dates
    /\ db = [id \in {"u1"} |-> User(today)]
    /\ last = Call("create", "u1", RetUser(User(today)), TRUE, NoArg)
    /\ run = NoRun
    /\ sess = NoSessions
    /\ solo = NoSolo
    /\ NoAuth

(***************************************************************************)
(* The system clock moves to another calendar date.                        *)
(***************************************************************************)
Tick(d) ==
    /\ d # today
    /\ today' = d
    /\ last' = Call("tick", "", RetNone, FALSE, NoArg)
    /\ run' = NoRun
    /\ UNCHANGED <<db, sess, solo, auth>>

(***************************************************************************)
(* How a handler ends: the row it leaves persisted, the value it returns   *)
(* and whether it committed.                                               *)
(***************************************************************************)
Outcome(ret, user, wrote) == [ret |-> ret, user |-> user, wrote |-> wrote]

Store_AllRows(rows, user_id, user) == [id \in DOMAIN rows |-> user]

Store(rows, user_id, user) == [rows EXCEPT ![user_id] = user]

Finish(op, user_id, arg, out) ==
    /\ db' = Store(db, user_id, out.user)
    /\ last' = Call(op, user_id, out.ret, out.wrote, arg)
    /\ UNCHANGED <<today, sess, solo, auth>>

Missing(op, user_id, arg, ret) ==
    /\ last' = Call(op, user_id, ret, FALSE, arg)
    /\ UNCHANGED <<db, today, sess, solo, auth>>

(***************************************************************************)
(* UserRepository.update_points on a loaded row:                           *)
(*   user.total_points = max(0, user.total_points + points_to_add)         *)
(***************************************************************************)
update_points_user_NoFloor(user, points_to_add) ==
    Outcome(RetBool(TRUE),
            [user EXCEPT !.total_points = @ + points_to_add],
            TRUE)

update_points_user_StaleReset(user, points_to_add) ==
    LET fresh == IF user.lives_reset_date # today
                 THEN [user EXCEPT !.daily_lives = MAX_LIVES,
                                   !.lives_reset_date = today]
                 ELSE user
    IN  Outcome(RetBool(TRUE),
                [fresh EXCEPT !.total_points = Max(0, @ + points_to_add)],
                TRUE)

update_points_user_Overwrite(user, points_to_add) ==
    Outcome(RetBool(TRUE),
            [user EXCEPT !.total_points = Max(0, points_to_add)],
            TRUE)

update_points_user(user, points_to_add) ==
    Outcome(RetBool(TRUE),
            [user EXCEPT !.total_points = Max(0, @ + points_to_add)],
            TRUE)

update_points(user_id, points_to_add) ==
    LET user == get_by_id(user_id)
        arg == Arg("points_to_add", points_to_add)
    IN  /\ IF user = <<>>
             THEN Missing("update_points", user_id, arg, RetBool(FALSE))
             ELSE Finish("update_points", user_id, arg,
                         update_points_user(user[1], points_to_add))
        /\ run' = NoRun

(***************************************************************************)
(* UserRepository.update_streak on a loaded row:                           *)
(*   user.current_streak = max(0, new_streak)                              *)
(*   if user.current_streak > user.max_streak:                             *)
(*       user.max_streak = user.current_streak                             *)
(***************************************************************************)
update_streak_user_MaxOverwritten(user, new_streak) ==
    LET current == Max(0, new_streak)
    IN  Outcome(RetBool(TRUE),
                [user EXCEPT !.current_streak = current, !.max_streak = current],
                TRUE)

update_streak_user_MaxNotRaised(user, new_streak) ==
    Outcome(RetBool(TRUE),
            [user EXCEPT !.current_streak = Max(0, new_streak)],
            TRUE)

update_streak_user_NoFloor(user, new_streak) ==
    Outcome(RetBool(TRUE),
            [user EXCEPT !.current_streak = new_streak,
                         !.max_streak = IF new_streak > @ THEN new_streak ELSE @],
            TRUE)

update_streak_user(user, new_streak) ==
    LET current == Max(0, new_streak)
    IN  Outcome(RetBool(TRUE),
                [user EXCEPT !.current_streak = current,
                             !.max_streak = IF current > @ THEN current ELSE @],
                TRUE)

update_streak(user_id, new_streak) ==
    LET user == get_by_id(user_id)
        arg == Arg("new_streak", new_streak)
    IN  /\ IF user = <<>>
             THEN Missing("update_streak", user_id, arg, RetBool(FALSE))
             ELSE Finish("update_streak", user_id, arg,
                         update_streak_user(user[1], new_streak))
        /\ run' = NoRun

(***************************************************************************)
(* UserRepository.reset_daily_lives on a loaded row: daily_lives = 5,      *)
(* lives_reset_date = date.today(), commit, return True.                   *)
(***************************************************************************)
UserRepository_reset_daily_lives_DateKept(user) ==
    Outcome(RetBool(TRUE), [user EXCEPT !.daily_lives = MAX_LIVES], TRUE)

UserRepository_reset_daily_lives(user) ==
    Outcome(RetBool(TRUE),
            [user EXCEPT !.daily_lives = MAX_LIVES, !.lives_reset_date = today],
            TRUE)

(***************************************************************************)
(* UserService.reset_daily_lives on a loaded row: a row already reset      *)
(* today is returned as it is, with no write; otherwise the repository's   *)
(* reset runs and its return value is passed on.                           *)
(***************************************************************************)
UserService_reset_daily_lives_NoDateCheck(existing_user) ==
    UserRepository_reset_daily_lives(existing_user)

UserService_reset_daily_lives(existing_user) ==
    IF existing_user.lives_reset_date = today
    THEN Outcome(RetUser(existing_user), existing_user, FALSE)
    ELSE UserRepository_reset_daily_lives(existing_user)

reset_daily_lives(user_id) ==
    LET existing_user == get_by_id(user_id)
    IN  /\ IF existing_user = <<>>
             THEN Missing("reset_daily_lives", user_id, NoArg, RetNone)
             ELSE Finish("reset_daily_lives", user_id, NoArg,
                         UserService_reset_daily_lives(existing_user[1]))
        /\ run' = NoRun

(***************************************************************************)
(* UserService.check_and_reset_daily_lives on a loaded row: a stale row    *)
(* goes through reset_daily_lives, a current one is returned as it is.     *)
(***************************************************************************)
UserService_check_and_reset(user) ==
    IF user.lives_reset_date # today
    THEN UserService_reset_daily_lives(user)
    ELSE Outcome(RetUser(user), user, FALSE)

check_and_reset_daily_lives(user_id) ==
    LET user == get_by_id(user_id)
    IN  /\ IF user = <<>>
             THEN Missing("check_and_reset_daily_lives", user_id, NoArg, RetNone)
             ELSE Finish("check_and_reset_daily_lives", user_id, NoArg,
                         UserService_check_and_reset(user[1]))
        /\ run' = NoRun

(***************************************************************************)
(* UserRepository.use_life on a loaded row: the new-day reset, the check   *)
(* for a remaining life (return False before any commit), the decrement.   *)
(***************************************************************************)
use_life_user_NoReset(user) ==
    IF user.daily_lives <= 0
    THEN Outcome(RetBool(FALSE), user, FALSE)
    ELSE Outcome(RetBool(TRUE), [user EXCEPT !.daily_lives = @ - 1], TRUE)

use_life_user_OffByOne(user) ==
    LET fresh == IF user.lives_reset_date # today
                 THEN [user EXCEPT !.daily_lives = MAX_LIVES,
                                   !.lives_reset_date = today]
                 ELSE user
    IN  IF fresh.daily_lives < 0
        THEN Outcome(RetBool(FALSE), user, FALSE)
        ELSE Outcome(RetBool(TRUE), [fresh EXCEPT !.daily_lives = @ - 1], TRUE)

use_life_user_CheckBeforeReset(user) ==
    IF user.daily_lives <= 0
    THEN Outcome(RetBool(FALSE), user, FALSE)
    ELSE Outcome(RetBool(TRUE),
                 [user EXCEPT !.daily_lives =
                                  (IF user.lives_reset_date # today
                                   THEN MAX_LIVES ELSE @) - 1,
                              !.lives_reset_date = today],
                 TRUE)

use_life_user_NoCheck(user) ==
    LET fresh == IF user.lives_reset_date # today
                 THEN [user EXCEPT !.daily_lives = MAX_LIVES,
                                   !.lives_reset_date = today]
                 ELSE user
    IN  Outcome(RetBool(TRUE), [fresh EXCEPT !.daily_lives = @ - 1], TRUE)

use_life_user_DateNotStored(user) ==
    LET fresh == IF user.lives_reset_date # today
                 THEN [user EXCEPT !.daily_lives = MAX_LIVES]
                 ELSE user
    IN  IF fresh.daily_lives <= 0
        THEN Outcome(RetBool(FALSE), user, FALSE)
        ELSE Outcome(RetBool(TRUE), [fresh EXCEPT !.daily_lives = @ - 1], TRUE)

use_life_user_StreakCleared(user) ==
    LET fresh == IF user.lives_reset_date # today
                 THEN [user EXCEPT !.daily_lives = MAX_LIVES,
                                   !.lives_reset_date = today]
                 ELSE user
    IN  IF fresh.daily_lives <= 0
        THEN Outcome(RetBool(FALSE), user, FALSE)
        ELSE Outcome(RetBool(TRUE),
                     [fresh EXCEPT !.daily_lives = @ - 1, !.current_streak = 0],
                     TRUE)

use_life_user_OnlyForward(user) ==
    LET fresh == IF user.lives_reset_date < today
                 THEN [user EXCEPT !.daily_lives = MAX_LIVES,
                                   !.lives_reset_date = today]
                 ELSE user
    IN  IF fresh.daily_lives <= 0
        THEN Outcome(RetBool(FALSE), user, FALSE)
        ELSE Outcome(RetBool(TRUE), [fresh EXCEPT !.daily_lives = @ - 1], TRUE)

use_life_user(user) ==
    LET fresh == IF user.lives_reset_date # today
                 THEN [user EXCEPT !.daily_lives = MAX_LIVES,
                                   !.lives_reset_date = today]
                 ELSE user
    IN  IF fresh.daily_lives <= 0
        THEN Outcome(RetBool(FALSE), user, FALSE)
        ELSE Outcome(RetBool(TRUE), [fresh EXCEPT !.daily_lives = @ - 1], TRUE)

use_life(user_id) ==
    LET user == get_by_id(user_id)
    IN  IF user = <<>>
        THEN /\ Missing("use_life", user_id, NoArg, RetBool(FALSE))
             /\ run' = NoRun
        ELSE LET out == use_life_user(user[1])
                 ok == IF out.ret.kind = "True" THEN 1 ELSE 0
             IN  /\ Finish("use_life", user_id, NoArg, out)
                 /\ run' = IF run.calls > 0
                           THEN [run EXCEPT !.calls = Min(@ + 1, MaxCalls),
                                            !.oks = @ + ok]
                           ELSE [calls |-> 1, oks |-> ok,
                                 stale |-> user[1].lives_reset_date # today,
                                 lives |-> user[1].daily_lives]

(***************************************************************************)
(* dict.get on the dictionary stats_update.dict(exclude_unset=True): the   *)
(* value of a key that was set, None (<<>>) for a key that was not.        *)
(***************************************************************************)
Get(update_data, key) ==
    IF key \in DOMAIN update_data THEN <<update_data[key]>> ELSE <<>>

(***************************************************************************)
(* The keyword arguments UserService.update_user_game_stats hands to the   *)
(* repository's update_game_stats.                                         *)
(***************************************************************************)
GetTruthy(update_data, key) ==
    IF key \in DOMAIN update_data /\ update_data[key] # 0
    THEN <<update_data[key]>> ELSE <<>>

game_stats_kwargs_ZeroDropped(update_data) ==
    [total_points |-> GetTruthy(update_data, "total_points"),
     current_streak |-> GetTruthy(update_data, "current_streak"),
     max_streak |-> GetTruthy(update_data, "max_streak"),
     daily_lives |-> GetTruthy(update_data, "daily_lives")]

game_stats_kwargs(update_data) ==
    [total_points |-> Get(update_data, "total_points"),
     current_streak |-> Get(update_data, "current_streak"),
     max_streak |-> Get(update_data, "max_streak"),
     daily_lives |-> Get(update_data, "daily_lives")]

(***************************************************************************)
(* The per-field base invariants of the data model, re-checked after a     *)
(* partial update; max_streak >= current_streak is not among them.         *)
(***************************************************************************)
BaseInvariants(user) ==
    /\ user.total_points >= 0
    /\ user.current_streak >= 0
    /\ user.max_streak >= 0
    /\ user.daily_lives >= 0
    /\ user.daily_lives <= MAX_LIVES

(***************************************************************************)
(* UserRepository.update_game_stats on a loaded row: every argument that   *)
(* is not None overwrites its column, lives_reset_date is not an argument; *)
(* the row is persisted and returned when the base invariants hold of it.  *)
(***************************************************************************)
update_game_stats(user, kwargs) ==
    LET Put(key) == IF kwargs[key] = <<>> THEN user[key] ELSE kwargs[key][1]
        updated == [total_points |-> Put("total_points"),
                    current_streak |-> Put("current_streak"),
                    max_streak |-> Put("max_streak"),
                    daily_lives |-> Put("daily_lives"),
                    lives_reset_date |-> user.lives_reset_date]
    IN  IF BaseInvariants(updated)
        THEN Outcome(RetUser(updated), updated, TRUE)
        ELSE Outcome(RetRejected, user, FALSE)

update_user_game_stats(user_id, stats_update) ==
    LET existing_user == get_by_id(user_id)
    IN  /\ IF existing_user = <<>>
             THEN Missing("update_user_game_stats", user_id, stats_update, RetNone)
             ELSE Finish("update_user_game_stats", user_id, stats_update,
                         update_game_stats(existing_user[1],
                                           game_stats_kwargs(stats_update)))
        /\ run' = NoRun

Deltas == (0 - MaxDelta)..MaxDelta
StreakArgs == (0 - Slack)..MaxStreak

PointsInBound(user_id, points_to_add) ==
    user_id \in DOMAIN db => db[user_id].total_points + points_to_add <= MaxPoints

(***************************************************************************)
(* The request bodies of the partial update: any subset of the four        *)
(* fields, each with a value of its range (StatsUpdates; for daily_lives   *)
(* the values 0, 3 and 5), and bodies of one field whose value lies        *)
(* outside its range (BadStatsUpdates).                                    *)
(***************************************************************************)
FieldValues(key) ==
    CASE key = "total_points" -> 0..MaxPoints
      [] key = "daily_lives" -> {0, 3, MAX_LIVES}
      [] OTHER -> 0..MaxStreak

Opt(S) == {<<>>} \cup { <<v>> : v \in S }

Dict(o) == [key \in { k \in Fields : o[k] # <<>> } |-> o[key][1]]

StatsUpdates ==
    { Dict(o) : o \in [total_points : Opt(FieldValues("total_points")),
                       current_streak : Opt(FieldValues("current_streak")),
                       max_streak : Opt(FieldValues("max_streak")),
                       daily_lives : Opt(FieldValues("daily_lives"))] }

BadStatsUpdates ==
    { Arg(key, 0 - Slack) : key \in Fields }
        \cup { Arg("daily_lives", MAX_LIVES + Slack) }

(***************************************************************************)
(* A call for a user id that has no row.                                   *)
(***************************************************************************)
MissingUserCall(id) ==
    \/ update_points(id, 1)
    \/ update_streak(id, 1)
    \/ reset_daily_lives(id)
    \/ check_and_reset_daily_lives(id)
    \/ use_life(id)
    \/ update_user_game_stats(id, Arg("daily_lives", 3))

Next ==
    \/ \E d \in Dates : Tick(d)
    \/ \E id \in DOMAIN db, n \in Deltas :
          PointsInBound(id, n) /\ update_points(id, n)
    \/ \E id \in DOMAIN db, n \in StreakArgs : update_streak(id, n)
    \/ \E id \in DOMAIN db : reset_daily_lives(id)
    \/ \E id \in DOMAIN db : check_and_reset_daily_lives(id)
    \/ \E id \in DOMAIN db : use_life(id)
    \/ \E id \in DOMAIN db, stats_update \in StatsUpdates :
          update_user_game_stats(id, stats_update)
    \/ \E id \in DOMAIN db, stats_update \in BadStatsUpdates :
          update_user_game_stats(id, stats_update)
    \/ \E id \in UserIds \ DOMAIN db : MissingUserCall(id)

Spec == Init /\ [][Next]_vars

(***************************************************************************)
(* A repository method as the two steps it is: the load by get_by_id, and  *)
(* then, with no await between them, the reading of date.today(), the      *)
(* assignments to the loaded object and db.commit().  Handler is the       *)
(* second step's effect on the loaded object.                              *)
(***************************************************************************)
RepositoryOps ==
    {"update_points", "update_streak", "UserRepository.reset_daily_lives",
     "use_life"}

LivesOps == {"UserRepository.reset_daily_lives", "use_life"}

Handler(op, user, arg) ==
    CASE op = "update_points" -> update_points_user(user, arg["points_to_add"])
      [] op = "update_streak" -> update_streak_user(user, arg["new_streak"])
      [] op = "UserRepository.reset_daily_lives" ->
             UserRepository_reset_daily_lives(user)
      [] op = "use_life" -> use_life_user(user)
      [] op \in {"reset_daily_lives", "check_and_reset_daily_lives"} ->
             UserRepository_reset_daily_lives(user)

(***************************************************************************)
(* db.commit(): the session sends one UPDATE with the columns of the       *)
(* object whose value differs from the value loaded, in one transaction;   *)
(* the other columns of the row stay as the database has them.             *)
(***************************************************************************)
flush_Relative(row, loaded, obj) ==
    [c \in DOMAIN row |->
        IF c = "daily_lives" THEN row[c] + (obj[c] - loaded[c])
        ELSE IF obj[c] # loaded[c] THEN obj[c] ELSE row[c]]

flush_DateNotWritten(row, loaded, obj) ==
    [c \in DOMAIN row |->
        IF obj[c] # loaded[c] /\ c # "lives_reset_date" THEN obj[c] ELSE row[c]]

flush(row, loaded, obj) ==
    [c \in DOMAIN row |-> IF obj[c] # loaded[c] THEN obj[c] ELSE row[c]]

(***************************************************************************)
(* db.rollback() in the except branch: nothing of the failed transaction   *)
(* stays in the database.                                                  *)
(***************************************************************************)
rollback_KeepsFlushed(row, loaded, obj) == flush(row, loaded, obj)

rollback(row, loaded, obj) == row

(***************************************************************************)
(* The first step of a repository call in session p: get_by_id.  With no   *)
(* row the method returns False at once.                                   *)
(***************************************************************************)
Load(p, op, user_id, arg) ==
    LET user == get_by_id(user_id)
        call == [Idle EXCEPT !.op = op, !.uid = user_id, !.arg = arg]
    IN  /\ sess[p].pc # "loaded"
        /\ IF user = <<>>
           THEN /\ sess' = [sess EXCEPT ![p] =
                               [call EXCEPT !.pc = "done", !.ret = RetBool(FALSE)]]
                /\ last' = Call(op, user_id, RetBool(FALSE), FALSE, arg)
           ELSE /\ sess' = [sess EXCEPT ![p] =
                               [call EXCEPT !.pc = "loaded", !.user = user]]
                /\ UNCHANGED last
        /\ UNCHANGED <<db, today, run, solo, auth>>

(***************************************************************************)
(* get_by_id raises: the except branch rolls back and returns False.       *)
(***************************************************************************)
LoadRaises(p, op, user_id, arg) ==
    /\ sess[p].pc # "loaded"
    /\ sess' = [sess EXCEPT ![p] =
                   [Idle EXCEPT !.pc = "done", !.op = op, !.uid = user_id,
                                !.arg = arg, !.ret = RetBool(FALSE),
                                !.raised = TRUE]]
    /\ last' = Call(op, user_id, RetBool(FALSE), FALSE, arg)
    /\ UNCHANGED <<db, today, run, solo, auth>>

(***************************************************************************)
(* The second step of a repository call in session p.  A session of the    *)
(* same user that is between its load and its commit is marked overlapped  *)
(* when this one writes.                                                   *)
(***************************************************************************)
Committed(p) ==
    LET s == sess[p]
        out == Handler(s.op, s.user[1], s.arg)
    IN  /\ s.pc = "loaded"
        /\ db' = IF out.wrote
                 THEN [db EXCEPT ![s.uid] = flush(@, s.user[1], out.user)]
                 ELSE db
        /\ sess' = [q \in Procs |->
                      IF q = p
                      THEN [s EXCEPT !.pc = "done", !.obj = <<out.user>>,
                                     !.ret = out.ret, !.wrote = out.wrote,
                                     !.tries = IF out.wrote THEN 1 ELSE 0]
                      ELSE IF /\ out.wrote /\ sess[q].pc = "loaded"
                              /\ sess[q].uid = s.uid
                           THEN [sess[q] EXCEPT !.overlapped = TRUE]
                           ELSE sess[q]]
        /\ last' = Call(s.op, s.uid, out.ret, out.wrote, s.arg)
        /\ UNCHANGED <<today, solo, auth>>

Commit(p) == Committed(p) /\ UNCHANGED run

(***************************************************************************)
(* db.commit() raises: the except branch logs, rolls back and returns      *)
(* False.                                                                  *)
(***************************************************************************)
CommitRaises(p) ==
    LET s == sess[p]
        out == Handler(s.op, s.user[1], s.arg)
    IN  /\ s.pc = "loaded"
        /\ out.wrote
        /\ db' = [db EXCEPT ![s.uid] = rollback(@, s.user[1], out.user)]
        /\ sess' = [sess EXCEPT ![p] =
                       [s EXCEPT !.pc = "done", !.obj = s.user,
                                 !.ret = RetBool(FALSE), !.raised = TRUE,
                                 !.tries = 1]]
        /\ last' = Call(s.op, s.uid, RetBool(FALSE), FALSE, s.arg)
        /\ UNCHANGED <<today, run, solo, auth>>

(***************************************************************************)
(* RaceSpec: two requests at a time on the life counter of one user, any   *)
(* interleaving of their loads and commits, the clock moving at any time.  *)
(***************************************************************************)
RaceNext ==
    \/ \E d \in Dates : Tick(d)
    \/ \E p \in Procs, op \in LivesOps : Load(p, op, "u1", NoArg)
    \/ \E p \in Procs : Commit(p)
    \/ \E p \in Procs : CommitRaises(p)

RaceSpec == Init /\ [][RaceNext]_vars

(***************************************************************************)
(* FailSpec: one request at a time, of any repository method, in which     *)
(* the load or the commit can fail.                                        *)
(***************************************************************************)
SampleArg(op) ==
    CASE op = "update_points" -> Arg("points_to_add", 1)
      [] op = "update_streak" -> Arg("new_streak", 1)
      [] OTHER -> NoArg

FailNext ==
    \/ \E d \in Dates : Tick(d)
    \/ \E id \in UserIds, n \in Deltas :
          /\ PointsInBound(id, n)
          /\ Load("p1", "update_points", id, Arg("points_to_add", n))
    \/ \E id \in UserIds, n \in StreakArgs :
          Load("p1", "update_streak", id, Arg("new_streak", n))
    \/ \E id \in UserIds, op \in LivesOps : Load("p1", op, id, NoArg)
    \/ \E op \in RepositoryOps : LoadRaises("p1", op, "u1", SampleArg(op))
    \/ Commit("p1")
    \/ CommitRaises("p1")

FailSpec == Init /\ [][FailNext]_vars

(***************************************************************************)
(* PairSpec: two users with a row each, the handlers whose code is at      *)
(* hand (all but the partial update) called for either in any order.       *)
(* ServiceCall is what a handler does to the row it loaded; solo[id] is    *)
(* the row that the calls made for id produce when applied, in their order *)
(* and on their dates, to id's row alone.  The calls of PairSpec are       *)
(* recorded in solo, not in last or run.                                   *)
(***************************************************************************)
ServiceCall(op, user, arg) ==
    CASE op = "update_points" -> update_points_user(user, arg["points_to_add"])
      [] op = "update_streak" -> update_streak_user(user, arg["new_streak"])
      [] op = "reset_daily_lives" -> UserService_reset_daily_lives(user)
      [] op = "check_and_reset_daily_lives" -> UserService_check_and_reset(user)
      [] op = "use_life" -> use_life_user(user)

PairInit ==
    /\ today \in Dates
    /\ db = [id \in UserIds |-> User(today)]
    /\ last = Call("create", "u2", RetUser(User(today)), TRUE, NoArg)
    /\ run = NoRun
    /\ sess = NoSessions
    /\ solo = db
    /\ NoAuth

PairCall(op, user_id, arg) ==
    LET out == ServiceCall(op, get_by_id(user_id)[1], arg)
        alone == ServiceCall(op, solo[user_id], arg)
    IN  /\ db' = Store(db, user_id, out.user)
        /\ solo' = [solo EXCEPT ![user_id] = alone.user]
        /\ UNCHANGED <<today, last, run, sess, auth>>

PairArgs(op) ==
    CASE op = "update_points" ->
             { Arg("points_to_add", n) : n \in {0 - MaxDelta, 1} }
      [] op = "update_streak" -> { Arg("new_streak", n) : n \in {0, MaxStreak} }
      [] OTHER -> { NoArg }

PairOps ==
    {"update_points", "update_streak", "reset_daily_lives",
     "check_and_reset_daily_lives", "use_life"}

PairNext ==
    \/ \E d \in Dates : Tick(d)
    \/ \E id \in UserIds, op \in PairOps :
          \E arg \in PairArgs(op) :
              /\ op = "update_points" => PointsInBound(id, arg["points_to_add"])
              /\ PairCall(op, id, arg)

PairSpec == PairInit /\ [][PairNext]_vars

(***************************************************************************)
(* The service's reset calls as the steps of one request.  Every await of  *)
(* get_by_id is a point where another request can run: the one of          *)
(* check_and_reset_daily_lives (through get_user_by_id), the one of        *)
(* UserService.reset_daily_lives and the one of                            *)
(* UserRepository.reset_daily_lives, which ends with the commit.  pc is    *)
(* "checked" after the first test found the row stale, "loaded" when the   *)
(* repository's get_by_id has returned.                                    *)
(***************************************************************************)
ServiceOps == {"reset_daily_lives", "check_and_reset_daily_lives"}

(***************************************************************************)
(* get_by_id called again in a session that holds the row already: the     *)
(* object of the session's identity map as it was loaded, or the row read  *)
(* again, as the implementation of get_by_id decides.                      *)
(***************************************************************************)
get_by_id_again(s) == {s.user[1], db[s.uid]}

Started(p, op, user_id) == [Idle EXCEPT !.op = op, !.uid = user_id]

Returned(s, ret) == [s EXCEPT !.pc = "done", !.ret = ret]

(***************************************************************************)
(* The first await of a service reset call and the test that follows it.   *)
(***************************************************************************)
ServiceLoad(p, op, user_id) ==
    LET user == get_by_id(user_id)
        call == [Started(p, op, user_id) EXCEPT !.user = user]
        ret == IF user = <<>> THEN RetNone ELSE RetUser(user[1])
        stale == user # <<>> /\ user[1].lives_reset_date # today
    IN  /\ sess[p].pc \in {"idle", "done"}
        /\ op \in ServiceOps
        /\ IF stale
           THEN /\ sess' = [sess EXCEPT ![p] =
                               [call EXCEPT !.pc =
                                   IF op = "check_and_reset_daily_lives"
                                   THEN "checked" ELSE "stale"]]
                /\ UNCHANGED last
           ELSE /\ sess' = [sess EXCEPT ![p] = Returned(call, ret)]
                /\ last' = Call(op, user_id, ret, FALSE, NoArg)
        /\ UNCHANGED <<db, today, run, solo, auth>>

(***************************************************************************)
(* check_and_reset_daily_lives has called UserService.reset_daily_lives:   *)
(* its get_by_id returns and the date is compared again.                   *)
(***************************************************************************)
ServiceRecheck(p) ==
    LET s == sess[p]
    IN  /\ s.pc = "checked"
        /\ \E existing_user \in get_by_id_again(s) :
              IF existing_user.lives_reset_date = today
              THEN /\ sess' = [sess EXCEPT ![p] =
                                  Returned([s EXCEPT !.user = <<existing_user>>],
                                           RetUser(existing_user))]
                   /\ last' = Call(s.op, s.uid, RetUser(existing_user), FALSE,
                                   NoArg)
              ELSE /\ sess' = [sess EXCEPT ![p] =
                                  [s EXCEPT !.pc = "stale",
                                            !.user = <<existing_user>>]]
                   /\ UNCHANGED last
        /\ UNCHANGED <<db, today, run, solo, auth>>

(***************************************************************************)
(* UserRepository.reset_daily_lives has been called by the service: its    *)
(* get_by_id returns.  The commit is the step Commit.                      *)
(***************************************************************************)
RepositoryLoad(p) ==
    LET s == sess[p]
    IN  /\ s.pc = "stale"
        /\ \E user \in get_by_id_again(s) :
              sess' = [sess EXCEPT ![p] =
                          [s EXCEPT !.pc = "loaded", !.user = <<user>>]]
        /\ UNCHANGED <<db, today, last, run, solo, auth>>

(***************************************************************************)
(* The date changes between requests.                                      *)
(***************************************************************************)
DayTick(d) ==
    /\ \A p \in Procs : sess[p].pc \in {"idle", "done"}
    /\ Tick(d)

(***************************************************************************)
(* DaySpec: one request at a time that reads or resets the lives through   *)
(* the service (p1) next to one request at a time that uses a life (p2),   *)
(* in any interleaving of their steps; no request is in flight when the    *)
(* date changes, so the requests that overlap read the same date.          *)
(***************************************************************************)
DayNext ==
    \/ \E d \in Dates : DayTick(d)
    \/ \E op \in ServiceOps : ServiceLoad("p1", op, "u1")
    \/ ServiceRecheck("p1")
    \/ RepositoryLoad("p1")
    \/ sess["p2"].pc \in {"idle", "done"} /\ Load("p2", "use_life", "u1", NoArg)
    \/ \E p \in Procs : Commit(p)

DaySpec == Init /\ [][DayNext]_vars

(***************************************************************************)
(* BudgetSpec: use_life requests only, two at a time, in any interleaving  *)
(* of their loads and commits; run.oks counts the calls that returned True *)
(* since the date last changed, run.stale and run.lives what the first     *)
(* commit of the date found in the row.  No request is in flight when the  *)
(* date changes.                                                           *)
(***************************************************************************)
CountedCommit(p) ==
    /\ Committed(p)
    /\ LET ok == IF last'.ret.kind = "True" THEN 1 ELSE 0
           row == db[sess[p].uid]
       IN  run' = IF run.calls > 0
                  THEN [run EXCEPT !.oks = @ + ok]
                  ELSE [calls |-> 1, oks |-> ok,
                        stale |-> row.lives_reset_date # today,
                        lives |-> row.daily_lives]

BudgetNext ==
    \/ \E d \in Dates : DayTick(d)
    \/ \E p \in Procs :
          sess[p].pc \in {"idle", "done"} /\ Load(p, "use_life", "u1", NoArg)
    \/ \E p \in Procs : CountedCommit(p)

BudgetSpec == Init /\ [][BudgetNext]_vars

(***************************************************************************)
(* ForwardSpec: the calls of Spec under a clock that never goes back:      *)
(* date.today() of a later call is never earlier than that of a call       *)
(* before it.                                                              *)
(***************************************************************************)
ForwardTick(d) == d > today /\ Tick(d)

ForwardNext ==
    \/ \E d \in Dates : ForwardTick(d)
    \/ \E id \in DOMAIN db, n \in Deltas :
          PointsInBound(id, n) /\ update_points(id, n)
    \/ \E id \in DOMAIN db, n \in StreakArgs : update_streak(id, n)
    \/ \E id \in DOMAIN db : reset_daily_lives(id)
    \/ \E id \in DOMAIN db : check_and_reset_daily_lives(id)
    \/ \E id \in DOMAIN db : use_life(id)
    \/ \E id \in DOMAIN db, stats_update \in StatsUpdates :
          update_user_game_stats(id, stats_update)
    \/ \E id \in UserIds \ DOMAIN db : MissingUserCall(id)

ForwardSpec == Init /\ [][ForwardNext]_vars

(***************************************************************************)
(* The read-only predicates of the model class and of the response schema. *)
(* User.has_lives_today: a row of another date counts as having lives,     *)
(* a row of today has them when daily_lives > 0.                           *)
(***************************************************************************)
has_lives_today_NotNegative(self) ==
    IF self.lives_reset_date # today THEN TRUE ELSE self.daily_lives >= 0

has_lives_today(self) ==
    IF self.lives_reset_date # today THEN TRUE ELSE self.daily_lives > 0

is_active(active, deleted) == active /\ ~deleted

User_can_play(self, active, deleted) ==
    is_active(active, deleted) /\ has_lives_today(self)

(***************************************************************************)
(* UserResponse.model_post_init: the can_play field of the response.       *)
(***************************************************************************)
UserResponse_can_play(self, active) ==
    active /\ (self.lives_reset_date # today \/ self.daily_lives > 0)

Flags(active, deleted) ==
    [k \in {"active", "deleted"} |-> IF k = "active" THEN active ELSE deleted]

Predicate(op, self, flags) ==
    CASE op = "has_lives_today" -> has_lives_today(self)
      [] op = "User.can_play" ->
             User_can_play(self, flags["active"], flags["deleted"])
      [] op = "UserResponse.can_play" ->
             UserResponse_can_play(self, flags["active"])

PredicateOps == {"has_lives_today", "User.can_play", "UserResponse.can_play"}

(***************************************************************************)
(* A predicate evaluated on the row of user_id; nothing is written.        *)
(***************************************************************************)
Evaluate(op, user_id, flags) ==
    /\ user_id \in DOMAIN db
    /\ last' = Call(op, user_id, RetBool(Predicate(op, db[user_id], flags)),
                    FALSE, flags)
    /\ run' = NoRun
    /\ UNCHANGED <<db, today, sess, solo, auth>>

(***************************************************************************)
(* PredicateSpec: the predicates and use_life on rows of any content, the  *)
(* values of daily_lives below 0 and above MAX_LIVES included (the column  *)
(* is a plain Integer).                                                    *)
(***************************************************************************)
AnyLives == {0 - Slack, 0, 1, MAX_LIVES, MAX_LIVES + Slack}

PredicateInit ==
    /\ today \in Dates
    /\ \E n \in AnyLives, d \in Dates :
          db = [id \in {"u1"} |->
                   [User(d) EXCEPT !.daily_lives = n]]
    /\ last = Call("load", "u1", RetNone, FALSE, NoArg)
    /\ run = NoRun
    /\ sess = NoSessions
    /\ solo = NoSolo
    /\ NoAuth

PredicateNext ==
    \/ \E d \in Dates : Tick(d)
    \/ \E op \in PredicateOps, active \in BOOLEAN, deleted \in BOOLEAN :
          Evaluate(op, "u1", Flags(active, deleted))
    \/ use_life("u1")

PredicateSpec == PredicateInit /\ [][PredicateNext]_vars

(***************************************************************************)
(* LiveSpec: the life-aware calls of one user under a clock that moves     *)
(* forward.  Time passes (weak fairness of the clock, up to the last date  *)
(* of the range) and the user goes on calling use_life (weak fairness of   *)
(* use_life).                                                              *)
(***************************************************************************)
LiveNext ==
    \/ \E d \in Dates : ForwardTick(d)
    \/ reset_daily_lives("u1")
    \/ check_and_reset_daily_lives("u1")
    \/ use_life("u1")

LiveSpec ==
    /\ Init
    /\ [][LiveNext]_vars
    /\ WF_vars(\E d \in Dates : ForwardTick(d))
    /\ WF_vars(use_life("u1"))

(***************************************************************************)
(* JWT issuing and verification (core/security.py).  A claim value is a    *)
(* record of its Python type t and its value v; a token is the JSON form   *)
(* of the claims together with the signature made over them with a key.    *)
(***************************************************************************)
SECRET_KEY == "settings.SECRET_KEY"
ACCESS_TOKEN_EXPIRE_MINUTES == 30
REFRESH_TOKEN_EXPIRE_DAYS == 7

minutes(n) == n * 60 * TicksPerSecond
days(n) == n * 24 * minutes(60)

Str(s) == [t |-> "str", v |-> s]
Int_(s) == [t |-> "int", v |-> s]
Datetime(ticks) == [t |-> "datetime", v |-> ticks]

Update(d, key, value) ==
    [k \in DOMAIN d \cup {key} |-> IF k = key THEN value ELSE d[k]]

(***************************************************************************)
(* jose.jwt.encode: datetime claims become whole seconds (timegm of the    *)
(* utctimetuple), then the claims are signed with the key.                 *)
(***************************************************************************)
Sign(json, key) == [key |-> key, over |-> json]

jwt_encode(claims, key) ==
    LET json == [k \in DOMAIN claims |->
                    IF claims[k].t = "datetime"
                    THEN Int_(claims[k].v \div TicksPerSecond)
                    ELSE claims[k]]
    IN  [claims |-> json, signature |-> Sign(json, key)]

(***************************************************************************)
(* jose.jwt.decode: the signature is verified with the key, then the       *)
(* registered claims are validated: exp must not be before the current     *)
(* second (ExpiredSignatureError) and sub, if present, must be a string    *)
(* (JWTClaimsError); both errors are JWTError.                             *)
(***************************************************************************)
JWTError == [error |-> TRUE, payload |-> <<>>]

jwt_decode(tok, key, now) ==
    LET c == tok.claims
    IN  IF tok.signature # Sign(c, key) THEN JWTError
        ELSE IF "exp" \in DOMAIN c /\ c["exp"].v < now \div TicksPerSecond
        THEN JWTError
        ELSE IF "sub" \in DOMAIN c /\ c["sub"].t # "str" THEN JWTError
        ELSE [error |-> FALSE, payload |-> <<c>>]

(***************************************************************************)
(* create_access_token / create_refresh_token; expires_delta is <<>> for   *)
(* None, and a zero timedelta is false in the test "if expires_delta".     *)
(***************************************************************************)
create_access_token(data, expires_delta, now) ==
    LET expire == IF expires_delta # <<>> /\ expires_delta[1] # 0
                  THEN now + expires_delta[1]
                  ELSE now + minutes(ACCESS_TOKEN_EXPIRE_MINUTES)
        to_encode == Update(Update(Update(data, "exp", Datetime(expire)),
                                   "iat", Datetime(now)),
                            "type", Str("access"))
    IN  jwt_encode(to_encode, SECRET_KEY)

create_refresh_token(data, expires_delta, now) ==
    LET expire == IF expires_delta # <<>> /\ expires_delta[1] # 0
                  THEN now + expires_delta[1]
                  ELSE now + days(REFRESH_TOKEN_EXPIRE_DAYS)
        to_encode == Update(Update(Update(data, "exp", Datetime(expire)),
                                   "iat", Datetime(now)),
                            "type", Str("refresh"))
    IN  jwt_encode(to_encode, SECRET_KEY)

(***************************************************************************)
(* verify_access_token / verify_refresh_token: the payload (<<payload>>)   *)
(* or None (<<>>).                                                         *)
(***************************************************************************)
PayloadGet(payload, key) ==
    IF key \in DOMAIN payload THEN <<payload[key]>> ELSE <<>>

HasExpired(payload, now) ==
    LET exp == PayloadGet(payload, "exp")
    IN  exp # <<>> /\ exp[1].v # 0 /\ exp[1].v * TicksPerSecond < now

verify_access_token_AnyType(tok, now) ==
    LET decoded == jwt_decode(tok, SECRET_KEY, now)
    IN  IF decoded.error THEN <<>>
        ELSE IF HasExpired(decoded.payload[1], now) THEN <<>>
        ELSE decoded.payload

verify_access_token(tok, now) ==
    LET decoded == jwt_decode(tok, SECRET_KEY, now)
    IN  IF decoded.error THEN <<>>
        ELSE IF PayloadGet(decoded.payload[1], "type") # <<Str("access")>>
        THEN <<>>
        ELSE IF HasExpired(decoded.payload[1], now) THEN <<>>
        ELSE decoded.payload

verify_refresh_token(tok, now) ==
    LET decoded == jwt_decode(tok, SECRET_KEY, now)
    IN  IF decoded.error THEN <<>>
        ELSE IF PayloadGet(decoded.payload[1], "type") # <<Str("refresh")>>
        THEN <<>>
        ELSE IF HasExpired(decoded.payload[1], now) THEN <<>>
        ELSE decoded.payload

(***************************************************************************)
(* The inputs: the data of the self-test ({"sub": "123"}), the same with   *)
(* an integer sub, and data that brings a type claim of its own; the       *)
(* expires_delta None, zero, in the past and in the future (in ticks).     *)
(***************************************************************************)
MaxNow == 3

Datas ==
    { [k \in {"sub"} |-> Str("123")],
      [k \in {"sub"} |-> Int_("123")],
      [k \in {"sub", "type"} |->
          IF k = "sub" THEN Str("123") ELSE Str("refresh")],
      [k \in {"sub", "type"} |->
          IF k = "sub" THEN Str("123") ELSE Str("access")] }

ExpiresDeltas == {<<>>, <<0>>, <<0 - 1>>, <<1>>, <<MaxNow>>}

Held(jwt, by, data) == [jwt |-> jwt, by |-> by, data |-> data]

(***************************************************************************)
(* Time passes: by a tick, or by the lifetime of an access token.          *)
(***************************************************************************)
Advance(dt) ==
    /\ dt = 1 => (utcnow - Epoch) % minutes(ACCESS_TOKEN_EXPIRE_MINUTES) < MaxNow
    /\ dt # 1 => utcnow - Epoch < dt
    /\ utcnow' = utcnow + dt
    /\ UNCHANGED <<db, today, last, run, sess, solo, token, verified>>

CreateAccess(data, expires_delta) ==
    /\ token' = <<Held(create_access_token(data, expires_delta, utcnow),
                       "create_access_token", data)>>
    /\ verified' = NoVerify
    /\ UNCHANGED <<db, today, last, run, sess, solo, utcnow>>

CreateRefresh(data, expires_delta) ==
    /\ token' = <<Held(create_refresh_token(data, expires_delta, utcnow),
                       "create_refresh_token", data)>>
    /\ verified' = NoVerify
    /\ UNCHANGED <<db, today, last, run, sess, solo, utcnow>>

(***************************************************************************)
(* A client presents a token that the configured key did not sign: the     *)
(* claims of an issued token signed with another key, or an issued token   *)
(* whose type claim was changed under the old signature.                   *)
(***************************************************************************)
Forge(key) ==
    /\ token # <<>> /\ token[1].by # "forged"
    /\ key # SECRET_KEY
    /\ token' = <<Held(jwt_encode(token[1].jwt.claims, key), "forged",
                       token[1].data)>>
    /\ verified' = NoVerify
    /\ UNCHANGED <<db, today, last, run, sess, solo, utcnow>>

Tamper(type) ==
    /\ token # <<>> /\ token[1].by # "forged"
    /\ token[1].jwt.claims["type"] # Str(type)
    /\ token' = <<Held([token[1].jwt EXCEPT !.claims["type"] = Str(type)],
                       "forged", token[1].data)>>
    /\ verified' = NoVerify
    /\ UNCHANGED <<db, today, last, run, sess, solo, utcnow>>

Verify(fn) ==
    /\ token # <<>>
    /\ verified' = [fn |-> fn, at |-> utcnow,
                    result |-> IF fn = "verify_access_token"
                               THEN verify_access_token(token[1].jwt, utcnow)
                               ELSE verify_refresh_token(token[1].jwt, utcnow)]
    /\ UNCHANGED <<db, today, last, run, sess, solo, utcnow, token>>

TokenInit ==
    /\ today = 0
    /\ db = [id \in {"u1"} |-> User(today)]
    /\ last = Call("create", "u1", RetUser(User(today)), TRUE, NoArg)
    /\ run = NoRun
    /\ sess = NoSessions
    /\ solo = NoSolo
    /\ NoAuth

TokenNext ==
    \/ \E dt \in {1, minutes(ACCESS_TOKEN_EXPIRE_MINUTES)} : Advance(dt)
    \/ \E data \in Datas, expires_delta \in ExpiresDeltas :
          CreateAccess(data, expires_delta)
    \/ \E data \in Datas, expires_delta \in ExpiresDeltas :
          CreateRefresh(data, expires_delta)
    \/ Forge("another key")
    \/ \E type \in {"access", "refresh"} : Tamper(type)
    \/ \E fn \in {"verify_access_token", "verify_refresh_token"} : Verify(fn)

TokenSpec == TokenInit /\ [][TokenNext]_vars

(***************************************************************************)
(* Properties.  A step of handler op for user id is a step whose new last  *)
(* record names them; Row(id) is the persisted row.                        *)
(***************************************************************************)
Row(id) == db[id]

ResetOps == {"reset_daily_lives", "check_and_reset_daily_lives"}

(***************************************************************************)
(* C1  Staleness auto-heal.  A use_life call on a row whose                *)
(* lives_reset_date differs from today returns True and leaves             *)
(* daily_lives = 4 and lives_reset_date = today, whatever daily_lives was; *)
(* reset_daily_lives and check_and_reset_daily_lives on such a row leave   *)
(* daily_lives = 5 and lives_reset_date = today.                           *)
(***************************************************************************)
C1_StalenessAutoHeal ==
    [][\A id \in DOMAIN db :
          (Row(id).lives_reset_date # today /\ last'.uid = id) =>
              /\ last'.op = "use_life" =>
                    /\ last'.ret.kind = "True"
                    /\ Row(id)'.daily_lives = 4
                    /\ Row(id)'.lives_reset_date = today
              /\ last'.op \in ResetOps =>
                    /\ Row(id)'.daily_lives = 5
                    /\ Row(id)'.lives_reset_date = today]_vars

C1_Witness ==
    /\ last.op = "use_life" /\ last.uid \in DOMAIN db
    /\ run.calls = 1 /\ run.stale /\ run.lives = 0
    /\ last.ret.kind = "True"
    /\ Row(last.uid).daily_lives = 4
    /\ Row(last.uid).lives_reset_date = today

(***************************************************************************)
(* C2  Life exhaustion.  A use_life call on a row with daily_lives = 0 and *)
(* lives_reset_date = today returns False without committing, and the row  *)
(* is what it was.                                                         *)
(***************************************************************************)
C2_LifeExhaustion ==
    [][\A id \in DOMAIN db :
          (/\ Row(id).daily_lives = 0
           /\ Row(id).lives_reset_date = today
           /\ last'.op = "use_life" /\ last'.uid = id) =>
              /\ last'.ret.kind = "False"
              /\ ~last'.wrote
              /\ db' = db]_vars

C2_Witness ==
    /\ last.op = "use_life" /\ last.uid \in DOMAIN db
    /\ last.ret.kind = "False" /\ ~last.wrote
    /\ run.calls = 1 /\ ~run.stale /\ run.lives = 0
    /\ Row(last.uid).daily_lives = 0
    /\ Row(last.uid).lives_reset_date = today

(***************************************************************************)
(* C3  Daily budget.  In a run of use_life calls on one date that starts   *)
(* on a stale row, the first five calls return True and leave daily_lives  *)
(* 4, 3, 2, 1, 0; the sixth and every later call returns False and         *)
(* daily_lives stays 0.                                                    *)
(***************************************************************************)
C3_DailyBudget ==
    (run.calls >= 1 /\ run.stale) =>
        /\ run.oks = Min(run.calls, 5)
        /\ Row(last.uid).daily_lives = 5 - run.oks
        /\ Row(last.uid).lives_reset_date = today
        /\ last.ret.kind = IF run.calls <= 5 THEN "True" ELSE "False"

C3_Witness ==
    /\ run.stale /\ run.calls = 6 /\ run.oks = 5
    /\ last.op = "use_life" /\ last.ret.kind = "False"
    /\ Row(last.uid).daily_lives = 0

(***************************************************************************)
(* C4  In every reachable state, 0 <= daily_lives <= 5 for every row.      *)
(***************************************************************************)
C4_LivesInRange ==
    \A id \in DOMAIN db : Row(id).daily_lives >= 0 /\ Row(id).daily_lives <= 5

C4_Witness ==
    /\ last.op = "update_user_game_stats" /\ last.uid \in DOMAIN db
    /\ last.ret.kind = "Rejected"
    /\ "daily_lives" \in DOMAIN last.arg /\ last.arg["daily_lives"] = 6
    /\ Row(last.uid).daily_lives = 0

(***************************************************************************)
(* C5  With every handler one atomic read-modify-write, in any run of      *)
(* use_life calls for one user on one date daily_lives never goes below 0, *)
(* the number of calls that return True is the number of lives that were   *)
(* available to the run (at most 5), and every other call returns False.   *)
(***************************************************************************)
C5_AtomicConsume ==
    run.calls >= 1 =>
        LET avail == IF run.stale THEN 5 ELSE run.lives
        IN  /\ avail <= 5
            /\ run.oks = Min(run.calls, avail)
            /\ Row(last.uid).daily_lives = avail - run.oks
            /\ Row(last.uid).daily_lives >= 0
            /\ (last.ret.kind = "False") = (run.calls > avail)

C5_Witness ==
    /\ ~run.stale /\ run.lives = 2 /\ run.calls = 4 /\ run.oks = 2
    /\ last.ret.kind = "False"
    /\ Row(last.uid).daily_lives = 0

(***************************************************************************)
(* C6  Floor invariant.  An update_points call on a row with               *)
(* total_points >= 0 leaves total_points >= 0, whatever the signed delta.  *)
(***************************************************************************)
C6_PointsFloor ==
    [][\A id \in DOMAIN db :
          (/\ Row(id).total_points >= 0
           /\ last'.op = "update_points" /\ last'.uid = id) =>
              Row(id)'.total_points >= 0]_vars

C6_Witness ==
    /\ last.op = "update_points" /\ last.uid \in DOMAIN db
    /\ last.wrote
    /\ last.arg["points_to_add"] < 0 - MaxPoints
    /\ Row(last.uid).total_points = 0

(***************************************************************************)
(* C7  Monotone max-streak.  An update_streak call, whatever its integer   *)
(* argument and whatever the row held, leaves max_streak no smaller than   *)
(* it was and no smaller than the new current_streak.                      *)
(***************************************************************************)
C7_MonotoneMaxStreak ==
    [][\A id \in DOMAIN db :
          (last'.op = "update_streak" /\ last'.uid = id) =>
              /\ Row(id)'.max_streak >= Row(id).max_streak
              /\ Row(id)'.max_streak >= Row(id)'.current_streak]_vars

C7_Witness ==
    /\ last.op = "update_streak" /\ last.uid \in DOMAIN db
    /\ last.arg["new_streak"] < 0
    /\ Row(last.uid).current_streak = 0
    /\ Row(last.uid).max_streak > 0

(***************************************************************************)
(* C8  As claimed: max_streak >= current_streak holds of every row in      *)
(* every reachable state, the partial update included.                     *)
(***************************************************************************)
C8_Original ==
    \A id \in DOMAIN db : Row(id).max_streak >= Row(id).current_streak

(***************************************************************************)
(* C8  As amended: max_streak >= current_streak holds after every          *)
(* update_streak call, and every handler other than the partial update     *)
(* keeps it when it held before.                                           *)
(***************************************************************************)
C8_StreakOrderKept ==
    [][\A id \in DOMAIN db :
          (/\ last'.op # "update_user_game_stats"
           /\ \/ Row(id).max_streak >= Row(id).current_streak
              \/ last'.op = "update_streak" /\ last'.uid = id) =>
              Row(id)'.max_streak >= Row(id)'.current_streak]_vars

C8_Witness ==
    /\ last.op = "update_streak" /\ last.uid \in DOMAIN db
    /\ last.arg["new_streak"] = MaxStreak
    /\ Row(last.uid).current_streak = MaxStreak
    /\ Row(last.uid).max_streak = MaxStreak

(***************************************************************************)
(* C9  Reset idempotence.  On a row with lives_reset_date = today,         *)
(* reset_daily_lives and check_and_reset_daily_lives return the persisted  *)
(* row, change no field and do not commit; lives used earlier that day are *)
(* not given back.                                                         *)
(***************************************************************************)
C9_ResetIdempotent ==
    [][\A id \in DOMAIN db :
          (/\ Row(id).lives_reset_date = today
           /\ last'.op \in ResetOps /\ last'.uid = id) =>
              /\ db' = db
              /\ ~last'.wrote
              /\ last'.ret = RetUser(Row(id))]_vars

C9_Witness ==
    /\ last.op = "check_and_reset_daily_lives" /\ last.uid \in DOMAIN db
    /\ ~last.wrote
    /\ last.ret = RetUser(Row(last.uid))
    /\ Row(last.uid).daily_lives < 5
    /\ Row(last.uid).lives_reset_date = today

(***************************************************************************)
(* C10  A partial update that is applied sets every field of the request   *)
(* to the value supplied, a supplied 0 included, and leaves every field    *)
(* that is not in the request, and lives_reset_date, as they were; one     *)
(* that is not applied changes nothing.                                    *)
(***************************************************************************)
C10_PatchFrame ==
    [][\A id \in DOMAIN db :
          (last'.op = "update_user_game_stats" /\ last'.uid = id) =>
              IF last'.ret.kind = "User"
              THEN /\ \A key \in Fields :
                         Row(id)'[key] = IF key \in DOMAIN last'.arg
                                         THEN last'.arg[key]
                                         ELSE Row(id)[key]
                   /\ Row(id)'.lives_reset_date = Row(id).lives_reset_date
                   /\ last'.ret.user = <<Row(id)'>>
              ELSE db' = db]_vars

C10_Witness ==
    /\ last.op = "update_user_game_stats" /\ last.uid \in DOMAIN db
    /\ last.ret.kind = "User"
    /\ DOMAIN last.arg = {"total_points", "current_streak"}
    /\ last.arg["total_points"] = 0 /\ last.arg["current_streak"] = 0
    /\ Row(last.uid).total_points = 0 /\ Row(last.uid).current_streak = 0
    /\ Row(last.uid).max_streak > 0
    /\ Row(last.uid).daily_lives = 3
    /\ Row(last.uid).lives_reset_date # today

(***************************************************************************)
(* The outcome of a use_life call as the program knows it: there was no    *)
(* row, the row had no life left, or a life was taken (commit ran).        *)
(***************************************************************************)
UseLifeOutcome(call) ==
    IF call.uid \notin DOMAIN db THEN "NotFound"
    ELSE IF call.wrote THEN "Success"
    ELSE "NoLivesRemaining"

(***************************************************************************)
(* C12  As claimed: a call of any handler for a user id with no row        *)
(* changes no state and does not commit, and two use_life calls with       *)
(* different outcomes (no row, no life left, life taken) return different  *)
(* values.                                                                 *)
(***************************************************************************)
C12_Original ==
    [][/\ last'.uid \in UserIds \ DOMAIN db => (db' = db /\ ~last'.wrote)
       /\ (/\ last.op = "use_life" /\ last'.op = "use_life"
           /\ UseLifeOutcome(last) # UseLifeOutcome(last')) =>
              last.ret # last'.ret]_vars

(***************************************************************************)
(* C17  update_points, update_streak and the partial update, called on a   *)
(* row whose lives_reset_date differs from today, leave lives_reset_date   *)
(* as it was; update_points and update_streak also leave daily_lives as it *)
(* was.                                                                    *)
(***************************************************************************)
C17_NoStaleToCurrent ==
    [][\A id \in DOMAIN db :
          (Row(id).lives_reset_date # today /\ last'.uid = id) =>
              /\ last'.op \in {"update_points", "update_streak",
                               "update_user_game_stats"} =>
                    Row(id)'.lives_reset_date = Row(id).lives_reset_date
              /\ last'.op \in {"update_points", "update_streak"} =>
                    Row(id)'.daily_lives = Row(id).daily_lives]_vars

C17_Witness ==
    /\ last.op = "update_points" /\ last.uid \in DOMAIN db
    /\ last.wrote /\ last.arg["points_to_add"] = 1
    /\ Row(last.uid).total_points = 1
    /\ Row(last.uid).lives_reset_date # today
    /\ Row(last.uid).daily_lives = 2

(***************************************************************************)
(* C18  As claimed: on a row whose lives_reset_date differs from today,    *)
(* reset_daily_lives and check_and_reset_daily_lives store daily_lives = 5 *)
(* and lives_reset_date = today, leave total_points, current_streak and    *)
(* max_streak as they were, commit, and return the stored row.             *)
(***************************************************************************)
C18_Original ==
    [][\A id \in DOMAIN db :
          (/\ Row(id).lives_reset_date # today
           /\ last'.op \in ResetOps /\ last'.uid = id) =>
              /\ Row(id)' = [Row(id) EXCEPT !.daily_lives = MAX_LIVES,
                                            !.lives_reset_date = today]
              /\ last'.wrote
              /\ last'.ret = RetUser(Row(id)')]_vars

(***************************************************************************)
(* C19  A use_life call that returns True leaves daily_lives one below its *)
(* value after the new-day check (5 on a row whose lives_reset_date        *)
(* differs from today, the stored value otherwise) and leaves              *)
(* total_points, current_streak and max_streak as they were.               *)
(***************************************************************************)
C19_ConsumeFrame ==
    [][\A id \in DOMAIN db :
          (/\ last'.op = "use_life" /\ last'.uid = id
           /\ last'.ret.kind = "True") =>
              /\ Row(id)'.daily_lives =
                    (IF Row(id).lives_reset_date # today
                     THEN MAX_LIVES ELSE Row(id).daily_lives) - 1
              /\ Row(id)'.total_points = Row(id).total_points
              /\ Row(id)'.current_streak = Row(id).current_streak
              /\ Row(id)'.max_streak = Row(id).max_streak]_vars

C19_Witness ==
    /\ last.op = "use_life" /\ last.uid \in DOMAIN db
    /\ last.ret.kind = "True"
    /\ run.calls = 1 /\ ~run.stale /\ run.lives = 3
    /\ Row(last.uid).daily_lives = 2
    /\ Row(last.uid).total_points = MaxPoints
    /\ Row(last.uid).current_streak = MaxStreak
    /\ Row(last.uid).max_streak = MaxStreak

(***************************************************************************)
(* C20  update_points stores max(0, total_points + points_to_add), for     *)
(* every stored value and every signed argument of the range, with no      *)
(* upper clamp, and leaves current_streak, max_streak, daily_lives and     *)
(* lives_reset_date as they were.                                          *)
(***************************************************************************)
C20_PointsArithmetic ==
    [][\A id \in DOMAIN db :
          (last'.op = "update_points" /\ last'.uid = id) =>
              Row(id)' = [Row(id) EXCEPT !.total_points =
                              Max(0, @ + last'.arg["points_to_add"])]]_vars

C20_Witness ==
    /\ last.op = "update_points" /\ last.uid \in DOMAIN db
    /\ last.wrote /\ last.arg["points_to_add"] = 0
    /\ Row(last.uid).total_points = MaxPoints
    /\ Row(last.uid).max_streak = MaxStreak
    /\ Row(last.uid).daily_lives = 4
    /\ Row(last.uid).lives_reset_date = today

(***************************************************************************)
(* Two use_life calls of different sessions for one user that have both    *)
(* ended, each having loaded daily_lives = 1 and taken it to 0 in its own  *)
(* object and committed, one of them having committed between the load and *)
(* the commit of the other.                                                *)
(***************************************************************************)
BothTookLastLife(p, q) ==
    /\ p # q
    /\ sess[p].uid = sess[q].uid
    /\ sess[p].overlapped \/ sess[q].overlapped
    /\ \A r \in {p, q} :
          /\ sess[r].pc = "done" /\ sess[r].op = "use_life"
          /\ sess[r].wrote
          /\ sess[r].user[1].daily_lives = 1
          /\ sess[r].obj[1].daily_lives = 0

(***************************************************************************)
(* C11  As claimed: with the load and the commit separate steps, two       *)
(* concurrent use_life calls for one user that both load daily_lives = 1   *)
(* and both decrement leave the stored daily_lives at -1.                  *)
(***************************************************************************)
C11_Original ==
    \A p, q \in Procs :
        BothTookLastLife(p, q) => Row(sess[p].uid).daily_lives = 0 - 1

(***************************************************************************)
(* C11  As amended: two such calls both return True and leave the stored   *)
(* daily_lives at 0, one decrement being lost; the stored daily_lives is   *)
(* never below 0, whatever the interleaving.                               *)
(***************************************************************************)
C11_LostUpdate ==
    /\ \A p, q \in Procs :
          BothTookLastLife(p, q) =>
              /\ Row(sess[p].uid).daily_lives = 0
              /\ sess[p].ret.kind = "True" /\ sess[q].ret.kind = "True"
    /\ \A id \in DOMAIN db : Row(id).daily_lives >= 0

C11_Witness ==
    /\ BothTookLastLife("p1", "p2")
    /\ sess["p2"].overlapped /\ ~sess["p1"].overlapped
    /\ last.op = "use_life" /\ last.ret.kind = "True"
    /\ Row("u1").daily_lives = 0
    /\ Row("u1").lives_reset_date = today

(***************************************************************************)
(* C13  As claimed: a repository call in which the load or the commit      *)
(* raised returns a value that is neither the value of success (True) nor  *)
(* the value returned for a missing row or for no life left (False), and   *)
(* the commit was attempted at most once.                                  *)
(***************************************************************************)
C13_Original ==
    \A p \in Procs :
        (sess[p].pc = "done" /\ sess[p].raised) =>
            /\ sess[p].ret \notin {RetBool(TRUE), RetBool(FALSE)}
            /\ sess[p].tries <= 1

(***************************************************************************)
(* C14  After a repository call whose commit raised, the stored row is the *)
(* row the call loaded: none of the assignments the call made to its       *)
(* object is in the database.                                              *)
(***************************************************************************)
C14_FailureLeavesRow ==
    \A p \in Procs :
        (sess[p].pc = "done" /\ sess[p].raised /\ sess[p].user # <<>>) =>
            /\ Row(sess[p].uid) = sess[p].user[1]
            /\ ~sess[p].wrote

C14_Witness ==
    /\ sess["p1"].pc = "done" /\ sess["p1"].raised
    /\ sess["p1"].op = "use_life" /\ sess["p1"].tries = 1
    /\ sess["p1"].user # <<>>
    /\ sess["p1"].user[1].lives_reset_date # today
    /\ sess["p1"].user[1].daily_lives = 0
    /\ Row("u1") = sess["p1"].user[1]

(***************************************************************************)
(* C15  The row changes only in the step in which a session's commit       *)
(* succeeds.  The step that ends a use_life call on a row whose            *)
(* lives_reset_date differs from today either commits, and then the row    *)
(* has lives_reset_date = today and daily_lives, if the step changed it,   *)
(* is the decremented 4 (never 5, and never changed under the old date),   *)
(* or it fails and leaves the row as it was.                               *)
(***************************************************************************)
C15_ResetWithDecrement ==
    [][/\ db' # db =>
             \E p \in Procs : /\ sess[p].pc = "loaded"
                              /\ sess'[p].pc = "done" /\ sess'[p].wrote
       /\ \A p \in Procs :
             (/\ sess[p].pc = "loaded" /\ sess'[p].pc = "done"
              /\ sess[p].op = "use_life"
              /\ sess[p].user[1].lives_reset_date # today) =>
                 IF sess'[p].wrote
                 THEN /\ Row(sess[p].uid)'.lives_reset_date = today
                      /\ Row(sess[p].uid)'.daily_lives # Row(sess[p].uid).daily_lives
                            => Row(sess[p].uid)'.daily_lives = MAX_LIVES - 1
                 ELSE db' = db /\ sess'[p].raised]_vars

C15_Witness ==
    /\ sess["p1"].pc = "done" /\ sess["p1"].op = "use_life"
    /\ sess["p1"].wrote
    /\ sess["p1"].user[1].lives_reset_date # today
    /\ sess["p1"].user[1].daily_lives = 2
    /\ sess["p2"].pc = "loaded" /\ sess["p2"].overlapped
    /\ Row("u1").daily_lives = 4
    /\ Row("u1").lives_reset_date = today

C21_StreakArithmetic ==
    [][\A id \in DOMAIN db :
          (last'.op = "update_streak" /\ last'.uid = id) =>
              LET n == last'.arg["new_streak"]
              IN  /\ Row(id)' = [Row(id) EXCEPT
                                    !.current_streak = Max(0, n),
                                    !.max_streak = Max(@, Max(0, n))]
                  /\ n <= 0 => /\ Row(id)'.current_streak = 0
                               /\ Row(id)'.max_streak = Row(id).max_streak]_vars

C21_Witness ==
    /\ last.op = "update_streak" /\ last.uid \in DOMAIN db
    /\ last.wrote /\ last.arg["new_streak"] = 0
    /\ Row(last.uid).current_streak = 0
    /\ Row(last.uid).max_streak = MaxStreak
    /\ Row(last.uid).total_points = MaxPoints
    /\ Row(last.uid).daily_lives = 2
    /\ Row(last.uid).lives_reset_date # today

(***************************************************************************)
(* C22  Right after create_user the row holds total_points = 0,            *)
(* current_streak = 0, max_streak = 0, daily_lives = MAX_LIVES = 5 and     *)
(* lives_reset_date = the date of the creation; that row satisfies the     *)
(* data-model invariants (points not negative, streaks not negative and    *)
(* max_streak >= current_streak, daily_lives in 0..5) and is CURRENT       *)
(* (lives_reset_date = today) for as long as the date is the creation date.*)
(***************************************************************************)
C22_NewUserState ==
    last.op = "create" =>
        /\ last.uid \in DOMAIN db
        /\ Row(last.uid).total_points = 0
        /\ Row(last.uid).current_streak = 0
        /\ Row(last.uid).max_streak = 0
        /\ Row(last.uid).daily_lives = MAX_LIVES /\ MAX_LIVES = 5
        /\ Row(last.uid).lives_reset_date = today
        /\ last.ret = RetUser(Row(last.uid))
        /\ Row(last.uid).total_points >= 0
        /\ Row(last.uid).current_streak >= 0
        /\ Row(last.uid).max_streak >= Row(last.uid).current_streak
        /\ Row(last.uid).daily_lives \in 0..MAX_LIVES

C22_Witness ==
    /\ last.op = "create" /\ last.uid = "u1"
    /\ today = MaxDate
    /\ Row("u1").daily_lives = 5
    /\ Row("u1").lives_reset_date = MaxDate

(***************************************************************************)
(* C23  Within one calendar day a consumed life is never given back: with  *)
(* the service's reset calls and use_life interleaved in any way, all of   *)
(* them reading the same date, and no partial update, a step taken on a    *)
(* row whose lives_reset_date is today never raises its daily_lives, i.e.  *)
(* the write of a reset is never applied to a row that is current.  (The   *)
(* claim as it is written; the code does not satisfy it.)                  *)
(***************************************************************************)
C23_Original ==
    [][\A id \in DOMAIN db :
          (today' = today /\ Row(id).lives_reset_date = today) =>
              Row(id)'.daily_lives <= Row(id).daily_lives]_vars

(***************************************************************************)
(* C24  As claimed: with use_life a load and a later commit and no lock,   *)
(* in every interleaving of concurrent use_life calls for one user on one  *)
(* day (a day that starts with MAX_LIVES = 5 lives) at most 5 calls return *)
(* True, and when no call is in flight the stored daily_lives is 5 minus   *)
(* the number of calls that returned True.  (The code does not satisfy     *)
(* it.)                                                                    *)
(***************************************************************************)
C24_Original ==
    (run.calls >= 1 /\ (run.stale \/ run.lives = MAX_LIVES)) =>
        /\ run.oks <= MAX_LIVES
        /\ (\A p \in Procs : sess[p].pc # "loaded") =>
               Row("u1").daily_lives = 5 - run.oks

(***************************************************************************)
(* C25  With dates that never go backwards, over every sequence of calls   *)
(* lives_reset_date never decreases and is never later than the latest     *)
(* date, and the reset transform writes at most once per date and user: a  *)
(* step in which it writes (a service reset that writes, or a use_life     *)
(* that changes lives_reset_date) starts from a lives_reset_date earlier   *)
(* than the date and leaves lives_reset_date = the date, so no second      *)
(* reset write can follow on that date.                                    *)
(***************************************************************************)
ResetWrite(id) ==
    /\ last'.uid = id
    /\ \/ last'.op \in ResetOps /\ last'.wrote
       \/ /\ last'.op = "use_life"
          /\ Row(id)'.lives_reset_date # Row(id).lives_reset_date

C25_OneResetPerDate ==
    [][\A id \in DOMAIN db :
          /\ Row(id)'.lives_reset_date >= Row(id).lives_reset_date
          /\ Row(id)'.lives_reset_date <= today'
          /\ ResetWrite(id) =>
                /\ Row(id).lives_reset_date < today'
                /\ Row(id)'.lives_reset_date = today'
                /\ Row(id)'.daily_lives \in {MAX_LIVES, MAX_LIVES - 1}]_vars

C25_Witness ==
    /\ today = MaxDate /\ today > 0
    /\ last.op = "reset_daily_lives" /\ last.uid \in DOMAIN db
    /\ ~last.wrote /\ last.ret.kind = "User"
    /\ Row(last.uid).lives_reset_date = today
    /\ Row(last.uid).daily_lives = 2

(***************************************************************************)
(* C26  As claimed: lives are replenished only when lives_reset_date is    *)
(* strictly earlier than the date of the call; a life-aware call           *)
(* (use_life, reset_daily_lives, check_and_reset_daily_lives) made on a    *)
(* date earlier than lives_reset_date does not set daily_lives to          *)
(* MAX_LIVES and does not move lives_reset_date back.                      *)
(***************************************************************************)
LifeAwareOps == ResetOps \cup {"use_life"}

C26_Original ==
    [][\A id \in DOMAIN db :
          (/\ last'.op \in LifeAwareOps /\ last'.uid = id
           /\ today' < Row(id).lives_reset_date) =>
              /\ Row(id)'.lives_reset_date >= Row(id).lives_reset_date
              /\ Row(id)'.daily_lives <= Row(id).daily_lives]_vars

(***************************************************************************)
(* C26  As amended: lives are replenished whenever lives_reset_date        *)
(* differs from the date of the call, earlier or later; a life-aware call  *)
(* made on a date earlier than lives_reset_date sets daily_lives to        *)
(* MAX_LIVES (use_life then takes one, leaving 4) and moves                *)
(* lives_reset_date back to the date of the call; only a call on the date  *)
(* lives_reset_date itself replenishes nothing and leaves the date.        *)
(***************************************************************************)
C26_ResetOnAnyOtherDate ==
    [][\A id \in DOMAIN db :
          (last'.op \in LifeAwareOps /\ last'.uid = id) =>
              /\ today' < Row(id).lives_reset_date =>
                    /\ Row(id)'.lives_reset_date = today'
                    /\ Row(id)'.daily_lives =
                          IF last'.op = "use_life" THEN MAX_LIVES - 1
                                                   ELSE MAX_LIVES
              /\ today' = Row(id).lives_reset_date =>
                    /\ Row(id)'.lives_reset_date = Row(id).lives_reset_date
                    /\ Row(id)'.daily_lives <= Row(id).daily_lives]_vars

C26_Witness ==
    /\ today < MaxDate
    /\ last.op = "use_life" /\ last.uid \in DOMAIN db
    /\ last.ret.kind = "True"
    /\ run.calls = 1 /\ run.stale /\ run.lives = 0
    /\ Row(last.uid).lives_reset_date = today
    /\ Row(last.uid).daily_lives = MAX_LIVES - 1

(***************************************************************************)
(* C27  For every row (daily_lives below 0 and above 5 included) and every *)
(* date, User.has_lives_today() is true exactly when use_life on that row  *)
(* and date would return True, and a use_life that follows the predicate   *)
(* returns what it announced; the can_play of UserResponse is              *)
(* active and (lives_reset_date # today or daily_lives > 0), i.e. active   *)
(* and the same condition; evaluating a predicate changes no row.          *)
(***************************************************************************)
C27_PredicatesAgree ==
    [][/\ last'.op \in PredicateOps =>
             /\ db' = db
             /\ has_lives_today(Row(last'.uid)) =
                   (use_life_user(Row(last'.uid)).ret.kind = "True")
       /\ last'.op = "has_lives_today" =>
             (last'.ret.kind = "True") =
                (use_life_user(Row(last'.uid)).ret.kind = "True")
       /\ last'.op = "UserResponse.can_play" =>
             (last'.ret.kind = "True") =
                (/\ last'.arg["active"]
                 /\ \/ Row(last'.uid).lives_reset_date # today
                    \/ Row(last'.uid).daily_lives > 0)
       /\ (last.op = "has_lives_today" /\ last'.op = "use_life") =>
             last'.ret = last.ret]_vars

C27_Witness ==
    /\ last.op = "has_lives_today" /\ last.ret.kind = "False"
    /\ Row(last.uid).lives_reset_date = today
    /\ Row(last.uid).daily_lives = 0 - Slack

(***************************************************************************)
(* C28  Replenishment liveness.  A user whose daily_lives reached 0 on     *)
(* date D is not blocked forever: once the date has moved past D and       *)
(* use_life is called again, a use_life succeeds on a later date; and the  *)
(* use_life that finds the row of an exhausted day on another date         *)
(* returns True and leaves daily_lives = 4 and lives_reset_date = that     *)
(* date.                                                                   *)
(***************************************************************************)
C28_Replenished ==
    /\ \A D \in Dates :
          (/\ D < MaxDate /\ today = D
           /\ Row("u1").lives_reset_date = D /\ Row("u1").daily_lives = 0)
          ~> (/\ today > D /\ Row("u1").lives_reset_date = today
              /\ last.op = "use_life" /\ last.ret.kind = "True")
    /\ [][(/\ last'.op = "use_life"
           /\ Row("u1").daily_lives = 0
           /\ Row("u1").lives_reset_date # today') =>
              /\ last'.ret.kind = "True"
              /\ Row("u1")'.daily_lives = MAX_LIVES - 1
              /\ Row("u1")'.lives_reset_date = today']_vars

C28_Witness ==
    /\ today = MaxDate
    /\ last.op = "use_life" /\ last.ret.kind = "True"
    /\ run.calls = 1 /\ run.stale /\ run.lives = 0
    /\ Row("u1").daily_lives = MAX_LIVES - 1
    /\ Row("u1").lives_reset_date = MaxDate

(***************************************************************************)
(* C29  As claimed: a daily_lives value v written by the partial update to *)
(* a row that is stale is discarded by the next life-aware call: the       *)
(* check_and_reset_daily_lives that follows returns a state with           *)
(* daily_lives = 5 and the use_life that follows leaves daily_lives = 4,   *)
(* whatever v; on a row that is current, v is the value the next use_life  *)
(* decrements (v > 0) or refuses on (v = 0).  (The code does not return a  *)
(* state from check_and_reset_daily_lives on a stale row.)                 *)
(***************************************************************************)
C29_Original ==
    [][\A id \in DOMAIN db :
          (/\ last.op = "update_user_game_stats" /\ last.uid = id
           /\ last.wrote /\ "daily_lives" \in DOMAIN last.arg
           /\ last'.uid = id) =>
              LET v == last.arg["daily_lives"]
                  stale == Row(id).lives_reset_date # today
              IN  /\ (stale /\ last'.op = "check_and_reset_daily_lives") =>
                        /\ last'.ret.kind = "User"
                        /\ last'.ret.user[1].daily_lives = MAX_LIVES
                  /\ (stale /\ last'.op = "use_life") =>
                        /\ last'.ret.kind = "True"
                        /\ Row(id)'.daily_lives = MAX_LIVES - 1
                  /\ (~stale /\ last'.op = "use_life") =>
                        IF v > 0
                        THEN /\ last'.ret.kind = "True"
                             /\ Row(id)'.daily_lives = v - 1
                        ELSE /\ last'.ret.kind = "False"
                             /\ Row(id)' = Row(id)]_vars

(***************************************************************************)
(* C30  The token a verification was given: who made it, whether the       *)
(* instant of its exp claim had passed when it was verified, and whether   *)
(* the verification returned its claims with the sub given at creation.    *)
(***************************************************************************)
Maker(fn) ==
    IF fn = "verify_access_token" THEN "create_access_token"
                                  ELSE "create_refresh_token"

OtherMaker(fn) ==
    IF fn = "verify_access_token" THEN "create_refresh_token"
                                  ELSE "create_access_token"

ExpiredWhenVerified ==
    token[1].jwt.claims["exp"].v * TicksPerSecond < verified.at

ReturnedPayload ==
    /\ verified.result = <<token[1].jwt.claims>>
    /\ verified.result[1]["sub"] = token[1].data["sub"]

====
